---- MODULE Spec2Model ----
(***************************************************************************)
(* Model of SqlManager.create_table_and_insert_rows_from_csv               *)
(* (src/pierredefourneaux_toolkit/sql_tools.py).                           *)
(*                                                                         *)
(* File names and declared type strings are sequences of one-character     *)
(* strings, so that re.sub, str.split and str.upper are computed as the    *)
(* code computes them.  Column names, cell values and store outcomes are   *)
(* opaque strings.                                                         *)
(***************************************************************************)
EXTENDS Integers, Sequences, FiniteSets, TLC

\* ------------------------------------------------------------------------
\* Bounds
\* ------------------------------------------------------------------------
MaxRows == 3

\* ------------------------------------------------------------------------
\* Python values
\* ------------------------------------------------------------------------
\* Python's None, as a cell value / return value
NONE == "None"

\* pandas' missing-value sentinel (float nan) as read by pd.read_csv
NaN == "NaN"

\* An Optional[...] argument or an os.getenv result: None or a value
NoneValue(empty) == [isNone |-> TRUE, v |-> empty]

Some(x) == [isNone |-> FALSE, v |-> x]

\* truth value of an optional list / dict (`if primary_keys:`)
TruthyList(x) == (~x.isNone) /\ Len(x.v) > 0

\* truth value of an optional str (`if not mysql_password:`)
TruthyStr(x) == (~x.isNone) /\ x.v # ""

\* pd.notna
notna(v) == v # NaN

\* ------------------------------------------------------------------------
\* Strings as sequences of characters
\* ------------------------------------------------------------------------
LowerLetters == <<"a","b","c","d","e","f","g","h","i","j","k","l","m","n","o","p","q","r","s","t","u","v","w","x","y","z">>

UpperLetters == <<"A","B","C","D","E","F","G","H","I","J","K","L","M","N","O","P","Q","R","S","T","U","V","W","X","Y","Z">>

\* str.upper on one character
UpperChar(c) ==
  IF \E k \in 1..Len(LowerLetters) : LowerLetters[k] = c
  THEN UpperLetters[CHOOSE k \in 1..Len(LowerLetters) : LowerLetters[k] = c]
  ELSE c

\* str.upper
upper(s) == [k \in 1..Len(s) |-> UpperChar(s[k])]

\* s.split("(")[0] : the text before the first "(" (the whole string if none)
SplitParenHead(s) ==
  IF \E k \in 1..Len(s) : s[k] = "("
  THEN SubSeq(s, 1, (CHOOSE k \in 1..Len(s) :
                        s[k] = "(" /\ \A m \in 1..(k-1) : s[m] # "(") - 1)
  ELSE s

\* the regular expression ".csv" matches at position k of s: any character
\* but a newline, followed by the letters c, s, v
MatchDotCsv(s, k) ==
  /\ k + 3 <= Len(s)
  /\ s[k] # "\n"
  /\ s[k+1] = "c" /\ s[k+2] = "s" /\ s[k+3] = "v"

\* re.sub(".csv", "", s) : every non-overlapping match, scanning from the
\* left, is replaced by the empty string
RECURSIVE ReSubDotCsv(_, _)
ReSubDotCsv(s, k) ==
  IF k > Len(s) THEN <<>>
  ELSE IF MatchDotCsv(s, k) THEN ReSubDotCsv(s, k + 4)
  ELSE <<s[k]>> \o ReSubDotCsv(s, k + 1)

\* nom_de_la_table = re.sub(".csv","",csv)
TableName(csvName) == ReSubDotCsv(csvName, 1)

\* ------------------------------------------------------------------------
\* Type validation
\* ------------------------------------------------------------------------
valid_types ==
  { <<"T","I","N","Y","I","N","T">>,
    <<"S","M","A","L","L","I","N","T">>,
    <<"M","E","D","I","U","M","I","N","T">>,
    <<"I","N","T">>,
    <<"I","N","T","E","G","E","R">>,
    <<"B","I","G","I","N","T">>,
    <<"D","E","C","I","M","A","L">>,
    <<"N","U","M","E","R","I","C">>,
    <<"F","L","O","A","T">>,
    <<"D","O","U","B","L","E">>,
    <<"D","A","T","E">>,
    <<"D","A","T","E","T","I","M","E">>,
    <<"T","I","M","E","S","T","A","M","P">>,
    <<"T","I","M","E">>,
    <<"Y","E","A","R">>,
    <<"C","H","A","R">>,
    <<"V","A","R","C","H","A","R">>,
    <<"T","E","X","T">>,
    <<"T","I","N","Y","T","E","X","T">>,
    <<"M","E","D","I","U","M","T","E","X","T">>,
    <<"L","O","N","G","T","E","X","T">>,
    <<"B","L","O","B">>,
    <<"E","N","U","M">>,
    <<"J","S","O","N">> }

\* base_type = t.split("(")[0].upper()
base_type(t) == upper(SplitParenHead(t))

\* len(list(zip(colonnes, types))) : zip stops at the shorter list
ZipLen(cols, tys) == IF Len(cols) <= Len(tys) THEN Len(cols) ELSE Len(tys)

\* the arity check `len(colonnes) != len(types)` passes
ArityOk_Always(cols, tys) == TRUE

ArityOk(cols, tys) == Len(cols) = Len(tys)

\* the positions of colonnes_types the validation loop looks at
CheckedPositions_FirstOnly(cols, tys) == 1..(IF ZipLen(cols, tys) > 0 THEN 1 ELSE 0)

CheckedPositions(cols, tys) == 1..ZipLen(cols, tys)

\* the position at which the validation loop raises (0 when it raises nowhere)
FirstInvalid(cols, tys) ==
  LET bad == { k \in CheckedPositions(cols, tys) : base_type(tys[k]) \notin valid_types }
  IN  IF bad = {} THEN 0
      ELSE CHOOSE k \in bad : \A m \in bad : k <= m

\* ------------------------------------------------------------------------
\* Statements
\* ------------------------------------------------------------------------
Range(f) == { f[k] : k \in DOMAIN f }

NoStatement == [op |-> "none"]

\* `if add_auto_id and not primary_keys:`
WantsAutoId_IgnoresPrimaryKeys(auto, pk) == auto

WantsAutoId(auto, pk) == auto /\ ~TruthyList(pk)

\* f"{nom_de_la_table}_id INT AUTO_INCREMENT PRIMARY KEY"
AutoIdDef(nom) == [kind |-> "auto_id", table |-> nom]

\* col_def = f"`{col}` {typ}"
ColDef_Uppercased(col, typ) == [kind |-> "column", name |-> col, type |-> upper(typ)]

ColDef(col, typ) == [kind |-> "column", name |-> col, type |-> typ]

\* f"PRIMARY KEY ({pk_str})", pk_str the keys joined in the given order
PrimaryKeyDef(keys) == [kind |-> "primary_key", keys |-> keys]

\* f"FOREIGN KEY (`{col}`) REFERENCES `{ref_table}`(`{ref_col}`)"
ForeignKeyDef(fk) ==
  [kind |-> "foreign_key", col |-> fk.col, ref_table |-> fk.ref_table, ref_col |-> fk.ref_col]

\* colonnes_a_creer, in the order of the appends
ColonnesACreer(nom, cols, tys, auto, pk, fk) ==
  (IF WantsAutoId(auto, pk) THEN <<AutoIdDef(nom)>> ELSE <<>>)
  \o [k \in 1..ZipLen(cols, tys) |-> ColDef(cols[k], tys[k])]
  \o (IF TruthyList(pk) THEN <<PrimaryKeyDef(pk.v)>> ELSE <<>>)
  \o (IF TruthyList(fk) THEN [k \in 1..Len(fk.v) |-> ForeignKeyDef(fk.v[k])] ELSE <<>>)

\* sql_create_table : "CREATE TABLE IF NOT EXISTS {nom} (" + ",\n".join(...) + ");"
CreateTable(nom, clauses) ==
  [op |-> "CREATE TABLE IF NOT EXISTS", table |-> nom, clauses |-> clauses]

\* valeurs = {col: row[col] if pd.notna(row[col]) else None for col in colonnes}
valeurs_Unconverted(cols, row) == [c \in Range(cols) |-> row[c]]

valeurs(cols, row) == [c \in Range(cols) |-> IF notna(row[c]) THEN row[c] ELSE NONE]

\* insert_sql with its bound values: one backquoted column and one named
\* placeholder per column of colonnes
InsertInto(nom, cols, row) ==
  [op |-> "INSERT INTO", table |-> nom, columns |-> cols,
   placeholders |-> cols, params |-> valeurs(cols, row)]

\* what reaches the store
Executed(stmt, k) == [ev |-> "execute", row |-> k, stmt |-> stmt]

Committed(k) == [ev |-> "commit", row |-> k, stmt |-> NoStatement]

RolledBack(k) == [ev |-> "rollback", row |-> k, stmt |-> NoStatement]

\* `with engine.begin() as conn: conn.execute(insert_sql, valeurs)` for an
\* INSERT the store accepts: executed, then committed on leaving the block
InsertOkEvents_NoCommit(stmt, k) == <<Executed(stmt, k)>>

InsertOkEvents(stmt, k) == <<Executed(stmt, k), Committed(k)>>

\* the rows that stay committed when the transaction of the current row is
\* rolled back: engine.begin() is opened per row, inside the loop
AfterRollback_SharedTransaction(rowsCommitted) == <<>>

AfterRollback(rowsCommitted) == rowsCommitted

\* `for _, row in df.iterrows()` has a row left at 1-based position k
RowsRemaining_SkipsLast(k, rows) == k < Len(rows)

RowsRemaining(k, rows) == k <= Len(rows)

\* ------------------------------------------------------------------------
\* Inputs of a call
\* ------------------------------------------------------------------------
DotCsv == <<".","c","s","v">>

\* file names base + ".csv"
CsvBases == { <<"t">>, <<"a","b">>, <<"x","c","s","v">> }

CsvNames == { b \o DotCsv : b \in CsvBases }

\* "INT", "varchar(5)", "FOOBAR"
TypeStrings ==
  { <<"I","N","T">>,
    <<"v","a","r","c","h","a","r","(","5",")">>,
    <<"F","O","O","B","A","R">> }

TypeLists == { <<t>> : t \in TypeStrings } \cup (TypeStrings \X TypeStrings)

ColumnLists == { <<"name">>, <<"name", "age">> }

\* the rows a file with the given header may hold
RowsOf(cols) ==
  IF cols = <<"name">>
  THEN { [name |-> "Alice"], [name |-> NaN] }
  ELSE { [name |-> "Alice", age |-> "28"], [name |-> "Bob", age |-> NaN] }

\* what pd.read_csv finds under the file name: no readable file, or a header
\* of unique column names and up to MaxRows rows
Files ==
  { [readable |-> FALSE, columns |-> <<>>, rows |-> <<>>] }
  \cup { [readable |-> TRUE, columns |-> cols, rows |-> rs] :
           cols \in ColumnLists, rs \in {<<>>} }
  \cup UNION { { [readable |-> TRUE, columns |-> cols, rows |-> rs] :
                   rs \in UNION { [1..n -> RowsOf(cols)] : n \in 1..MaxRows } } :
               cols \in ColumnLists }

PrimaryKeyArgs == { NoneValue(<<>>), Some(<<>>), Some(<<"age", "name">>) }

ForeignKeyArgs ==
  { NoneValue(<<>>),
    Some(<< [col |-> "name", ref_table |-> "clients", ref_col |-> "id"],
            [col |-> "age", ref_table |-> "produits", ref_col |-> "id"] >>) }

\* os.getenv("MYSQL_PASSWORD") : unset, set to the empty string, or set
PasswordValues == { NoneValue(""), Some(""), Some("secret") }

\* what the store does with a statement handed to it
StoreOutcomes == { "ok", "rejected", "no_connection" }

\* ------------------------------------------------------------------------
\* Exceptions
\* ------------------------------------------------------------------------
NoException == [type |-> "none", kind |-> "none", col |-> "", typ |-> <<>>]

\* pd.read_csv raises
FileNotFound == [type |-> "FileNotFoundError", kind |-> "FileNotFound", col |-> "", typ |-> <<>>]

\* raise ValueError("Le nombre de types demandés ... ne correspond pas ...")
SchemaMismatch == [type |-> "ValueError", kind |-> "SchemaMismatch", col |-> "", typ |-> <<>>]

\* raise ValueError(f"Type invalide pour la colonne `{col}` : `{t}` ...")
InvalidColumnType(col, t) == [type |-> "ValueError", kind |-> "InvalidColumnType", col |-> col, typ |-> t]

\* raise ValueError("La variable d'environnement \"MYSQL_PASSWORD\" ...")
CredentialMissing == [type |-> "ValueError", kind |-> "CredentialMissing", col |-> "", typ |-> <<>>]

\* whatever engine.connect / engine.begin / conn.execute raises
StoreExecutionError == [type |-> "SQLAlchemyError", kind |-> "StoreExecutionError", col |-> "", typ |-> <<>>]

\* the class of a failure: the caller's input is wrong, or the store failed
FailureClass(e) ==
  IF e.kind \in {"SchemaMismatch", "InvalidColumnType"} THEN "validation"
  ELSE IF e.kind = "StoreExecutionError" THEN "store"
  ELSE "other"

\* ------------------------------------------------------------------------
\* State
\* ------------------------------------------------------------------------
VARIABLES
  pc,               \* position of the call: idle, validate, connect, build,
                    \* create, insert, except, returned
  env,              \* MYSQL_PASSWORD in the process environment
  csv,              \* argument csv
  types,            \* argument types
  add_auto_id,      \* argument add_auto_id
  primary_keys,     \* argument primary_keys
  foreign_keys,     \* argument foreign_keys
  file,             \* what pd.read_csv(csv) finds
  nom_de_la_table,  \* local nom_de_la_table
  colonnes,         \* local colonnes
  sql_create_table, \* local sql_create_table, once assembled
  i,                \* 1-based position of df.iterrows()
  log,              \* what has reached the store during the call, in order
  committed,        \* bound values of the rows this call has committed
  exc,              \* exception caught by `except Exception as e`
  printed,          \* messages printed by the call, in order
  ret,              \* value returned to the caller
  yielded           \* <<failure class, returned value>> of the calls so far

vars == <<pc, env, csv, types, add_auto_id, primary_keys, foreign_keys, file,
          nom_de_la_table, colonnes, sql_create_table, i, log, committed,
          exc, printed, ret, yielded>>

args == <<csv, types, add_auto_id, primary_keys, foreign_keys, file>>

Running == "<running>"

Init ==
  /\ pc = "idle"
  /\ env \in PasswordValues
  /\ csv = <<>>
  /\ types = <<>>
  /\ add_auto_id = TRUE
  /\ primary_keys = NoneValue(<<>>)
  /\ foreign_keys = NoneValue(<<>>)
  /\ file = [readable |-> FALSE, columns |-> <<>>, rows |-> <<>>]
  /\ nom_de_la_table = <<>>
  /\ colonnes = <<>>
  /\ sql_create_table = NoStatement
  /\ i = 0
  /\ log = <<>>
  /\ committed = <<>>
  /\ exc = NoException
  /\ printed = <<>>
  /\ ret = Running
  /\ yielded = {}

\* ------------------------------------------------------------------------
\* create_table_and_insert_rows_from_csv
\* ------------------------------------------------------------------------
\* the caller calls the method
Call ==
  /\ pc = "idle"
  /\ csv' \in CsvNames
  /\ types' \in TypeLists
  /\ add_auto_id' \in BOOLEAN
  /\ primary_keys' \in PrimaryKeyArgs
  /\ foreign_keys' \in ForeignKeyArgs
  /\ file' \in Files
  /\ pc' = "validate"
  /\ UNCHANGED <<env, nom_de_la_table, colonnes, sql_create_table, i, log,
                 committed, exc, printed, ret, yielded>>

\* table name, read_csv, arity check, type check
Validate ==
  /\ pc = "validate"
  /\ nom_de_la_table' = TableName(csv)
  /\ IF ~file.readable
     THEN /\ exc' = FileNotFound
          /\ pc' = "except"
          /\ UNCHANGED colonnes
     ELSE /\ colonnes' = file.columns
          /\ IF ~ArityOk(file.columns, types)
             THEN /\ exc' = SchemaMismatch
                  /\ pc' = "except"
             ELSE LET k == FirstInvalid(file.columns, types)
                  IN  IF k # 0
                      THEN /\ exc' = InvalidColumnType(file.columns[k], types[k])
                           /\ pc' = "except"
                      ELSE /\ exc' = exc
                           /\ pc' = "connect"
  /\ UNCHANGED <<env, args, sql_create_table, i, log, committed, printed, ret, yielded>>

\* mysql_password = os.getenv(...); create_engine(...)
Connect ==
  /\ pc = "connect"
  /\ IF ~TruthyStr(env)
     THEN /\ exc' = CredentialMissing
          /\ pc' = "except"
     ELSE /\ exc' = exc
          /\ pc' = "build"
  /\ UNCHANGED <<env, args, nom_de_la_table, colonnes, sql_create_table, i, log,
                 committed, printed, ret, yielded>>

\* assembly of sql_create_table
BuildCreate ==
  /\ pc = "build"
  /\ sql_create_table' =
       CreateTable(nom_de_la_table,
                   ColonnesACreer(nom_de_la_table, colonnes, types,
                                  add_auto_id, primary_keys, foreign_keys))
  /\ pc' = "create"
  /\ UNCHANGED <<env, args, nom_de_la_table, colonnes, i, log, committed, exc,
                 printed, ret, yielded>>

\* with engine.connect() as conn: conn.execute(text(sql_create_table)); print
ExecCreate ==
  /\ pc = "create"
  /\ \E outcome \in StoreOutcomes :
       \/ /\ outcome = "ok"
          /\ log' = Append(log, Executed(sql_create_table, 0))
          /\ printed' = Append(printed, "table_created")
          /\ i' = 1
          /\ exc' = exc
          /\ pc' = "insert"
       \/ /\ outcome = "rejected"
          /\ log' = Append(log, Executed(sql_create_table, 0))
          /\ exc' = StoreExecutionError
          /\ pc' = "except"
          /\ UNCHANGED <<printed, i>>
       \/ /\ outcome = "no_connection"
          /\ exc' = StoreExecutionError
          /\ pc' = "except"
          /\ UNCHANGED <<log, printed, i>>
  /\ UNCHANGED <<env, args, nom_de_la_table, colonnes, sql_create_table,
                 committed, ret, yielded>>

\* one iteration of `for _, row in df.iterrows()`
InsertRow ==
  /\ pc = "insert"
  /\ RowsRemaining(i, file.rows)
  /\ LET stmt == InsertInto(nom_de_la_table, colonnes, file.rows[i])
     IN  \E outcome \in StoreOutcomes :
           \/ /\ outcome = "ok"
              /\ log' = log \o InsertOkEvents(stmt, i)
              /\ committed' =
                   IF \E k \in 1..Len(log') : log'[k] = Committed(i)
                   THEN Append(committed, stmt.params)
                   ELSE committed
              /\ i' = i + 1
              /\ exc' = exc
              /\ pc' = "insert"
           \/ /\ outcome = "rejected"
              /\ log' = log \o <<Executed(stmt, i), RolledBack(i)>>
              /\ committed' = AfterRollback(committed)
              /\ exc' = StoreExecutionError
              /\ pc' = "except"
              /\ i' = i
           \/ /\ outcome = "no_connection"
              /\ exc' = StoreExecutionError
              /\ pc' = "except"
              /\ UNCHANGED <<log, committed, i>>
  /\ UNCHANGED <<env, args, nom_de_la_table, colonnes, sql_create_table,
                 printed, ret, yielded>>

\* the loop is over: final print, the method falls off its end
Finish ==
  /\ pc = "insert"
  /\ ~RowsRemaining(i, file.rows)
  /\ printed' = Append(printed, "all_rows_inserted")
  /\ ret' = NONE
  /\ pc' = "returned"
  /\ UNCHANGED <<env, args, nom_de_la_table, colonnes, sql_create_table, i, log,
                 committed, exc, yielded>>

\* except Exception as e: print(...); traceback.print_exc(); return None
Except ==
  /\ pc = "except"
  /\ printed' = Append(printed, "Erreur lors de la creation ou de l'insertion")
  /\ ret' = NONE
  /\ yielded' = IF FailureClass(exc) \in {"validation", "store"}
                THEN yielded \cup { <<FailureClass(exc), NONE>> }
                ELSE yielded
  /\ pc' = "returned"
  /\ UNCHANGED <<env, args, nom_de_la_table, colonnes, sql_create_table, i, log,
                 committed, exc>>

\* the caller has the returned value; the frame of the call is gone and the
\* method can be called again
Resume ==
  /\ pc = "returned"
  /\ csv' = <<>>
  /\ types' = <<>>
  /\ add_auto_id' = TRUE
  /\ primary_keys' = NoneValue(<<>>)
  /\ foreign_keys' = NoneValue(<<>>)
  /\ file' = [readable |-> FALSE, columns |-> <<>>, rows |-> <<>>]
  /\ nom_de_la_table' = <<>>
  /\ colonnes' = <<>>
  /\ sql_create_table' = NoStatement
  /\ i' = 0
  /\ log' = <<>>
  /\ committed' = <<>>
  /\ exc' = NoException
  /\ printed' = <<>>
  /\ ret' = Running
  /\ pc' = "idle"
  /\ UNCHANGED <<env, yielded>>

Next ==
  \/ Call
  \/ Validate
  \/ Connect
  \/ BuildCreate
  \/ ExecCreate
  \/ InsertRow
  \/ Finish
  \/ Except
  \/ Resume

Spec == Init /\ [][Next]_vars

\* ------------------------------------------------------------------------
\* Properties
\* ------------------------------------------------------------------------
\* the base token of a declared type string: its longest prefix without "(",
\* in upper case
BaseToken(t) ==
  LET m == CHOOSE k \in 0..Len(t) :
             /\ \A j \in 1..k : t[j] # "("
             /\ (k < Len(t) => t[k+1] = "(")
  IN  upper(SubSeq(t, 1, m))

Unrecognized(t) == BaseToken(t) \notin valid_types

\* a call is in progress or has just returned
InCall == pc # "idle"

\* the INSERT and CREATE statements that have reached the store, in order
Executions == SelectSeq(log, LAMBDA x : x.ev = "execute")

Creates == SelectSeq(log, LAMBDA x : x.ev = "execute" /\ x.row = 0)

Inserts == SelectSeq(log, LAMBDA x : x.ev = "execute" /\ x.row > 0)

Printed(msg) == \E k \in 1..Len(printed) : printed[k] = msg

\* C1 --------------------------------------------------------------------
C1_Case == InCall /\ file.readable /\ Len(types) # Len(file.columns)

\* C1: when the number of declared types differs from the number of columns
\* of the dataset, the call fails with the schema-mismatch error and no
\* statement (CREATE TABLE or INSERT) ever reaches the database.
C1_ArityMismatchFailsFast ==
  C1_Case =>
    /\ log = <<>>
    /\ pc \in {"validate", "except", "returned"}
    /\ (pc \in {"except", "returned"} => exc = SchemaMismatch)
    /\ (pc = "returned" => ret = NONE /\ ~Printed("all_rows_inserted"))

C1_Witness == C1_Case /\ pc = "returned" /\ exc = SchemaMismatch /\ log = <<>>

\* C2 --------------------------------------------------------------------
C2_Case ==
  /\ InCall /\ file.readable /\ Len(types) = Len(file.columns)
  /\ \E k \in 1..Len(types) : Unrecognized(types[k])

\* C2: when the arity check passes and some declared type has an
\* unrecognized base token, the call fails with the invalid-column-type error
\* naming the (first) offending column and its type string, and no statement
\* reaches the database.
C2_InvalidTypeFailsFast ==
  C2_Case =>
    /\ log = <<>>
    /\ pc \in {"validate", "except", "returned"}
    /\ (pc \in {"except", "returned"} =>
          /\ exc.type = "ValueError" /\ exc.kind = "InvalidColumnType"
          /\ \E k \in 1..Len(types) :
               /\ Unrecognized(types[k])
               /\ \A j \in 1..(k-1) : ~Unrecognized(types[j])
               /\ exc.col = file.columns[k]
               /\ exc.typ = types[k])
    /\ (pc = "returned" => ret = NONE /\ ~Printed("all_rows_inserted"))

C2_Witness ==
  /\ C2_Case /\ pc = "returned" /\ exc.kind = "InvalidColumnType"
  /\ Len(types) = 2 /\ ~Unrecognized(types[1]) /\ exc.col = "age"

\* C3 --------------------------------------------------------------------
C3_Case ==
  /\ InCall /\ file.readable /\ Len(types) = Len(file.columns)
  /\ \A k \in 1..Len(types) : ~Unrecognized(types[k])

C3_Success ==
  /\ exc = NoException
  /\ Printed("all_rows_inserted")
  /\ Len(Creates) = 1
  /\ Len(Inserts) = Len(file.rows)

DDLBuilt == InCall /\ sql_create_table # NoStatement

Clauses == sql_create_table.clauses

AutoIdPositions == { k \in 1..Len(Clauses) : Clauses[k].kind = "auto_id" }

PrimaryKeyPositions == { k \in 1..Len(Clauses) : Clauses[k].kind = "primary_key" }

PrimaryKeysGiven == (~primary_keys.isNone) /\ primary_keys.v # <<>>

C5_MissingValuesBoundAsNone ==
  \A e \in 1..Len(Inserts) :
    LET stmt == Inserts[e].stmt
        row  == file.rows[Inserts[e].row]
    IN  /\ stmt.columns = file.columns
        /\ stmt.placeholders = file.columns
        /\ Cardinality(Range(file.columns)) = Len(file.columns)
        /\ DOMAIN stmt.params = Range(file.columns)
        /\ \A c \in Range(file.columns) :
             /\ (row[c] # NaN => stmt.params[c] = row[c])
             /\ (row[c] = NaN => stmt.params[c] = NONE)
             /\ stmt.params[c] # NaN

C5_Witness ==
  \E e \in 1..Len(Inserts) :
    /\ file.rows[Inserts[e].row]["name"] = "Bob"
    /\ file.rows[Inserts[e].row]["age"] = NaN
    /\ Inserts[e].stmt.params["age"] = NONE
    /\ Inserts[e].stmt.params["name"] = "Bob"

\* C6 --------------------------------------------------------------------
\* the store has rejected the INSERT of row k
RejectedAt(k) == \E e \in 1..Len(log) : log[e] = RolledBack(k)

\* the bound values of row j, from the file
BoundValues(j) ==
  [c \in Range(file.columns) |->
     IF file.rows[j][c] = NaN THEN NONE ELSE file.rows[j][c]]

\* C6: if the store rejects the INSERT of row k, rows 1..k-1 stay committed,
\* row k is not committed, no INSERT of a later row is submitted, the INSERT
\* of row k is submitted once, and the call ends in failure.
C6_FailureKeepsEarlierRows ==
  \A k \in 1..Len(file.rows) :
    RejectedAt(k) =>
      /\ committed = [j \in 1..(k-1) |-> BoundValues(j)]
      /\ \A j \in 1..(k-1) : \E e \in 1..Len(log) : log[e] = Committed(j)
      /\ \A e \in 1..Len(log) : log[e] # Committed(k) /\ log[e].row <= k
      /\ Cardinality({ e \in 1..Len(Inserts) : Inserts[e].row = k }) = 1
      /\ pc \in {"except", "returned"}
      /\ exc = StoreExecutionError
      /\ (pc = "returned" => ret = NONE /\ ~Printed("all_rows_inserted"))

C6_Witness ==
  /\ pc = "returned" /\ Len(file.rows) = 3 /\ RejectedAt(2)
  /\ Len(committed) = 1 /\ Len(Inserts) = 2

\* C7 --------------------------------------------------------------------
\* C7: the indication a failed call yields to its caller tells a validation
\* failure from a store failure: no indication is yielded for both classes.
C7_FailureClassDistinguished ==
  \A a \in yielded : \A b \in yielded : (a[2] = b[2]) => (a[1] = b[1])

\* C8 --------------------------------------------------------------------
\* C8: the statements reach the store in the order CREATE TABLE, INSERT of
\* row 1, INSERT of row 2, ...; each INSERT is that of the row at its
\* position in the input; row r-1 is committed before the INSERT of row r is
\* submitted; no INSERT is submitted unless the CREATE TABLE was executed
\* successfully.
C8_StatementOrder ==
  /\ \A n \in 1..Len(Executions) : Executions[n].row = n - 1
  /\ \A n \in 1..Len(Executions) :
       Executions[n].stmt.op =
         (IF n = 1 THEN "CREATE TABLE IF NOT EXISTS" ELSE "INSERT INTO")
  /\ \A n \in 1..Len(Inserts) :
       Inserts[n].stmt.params = BoundValues(n)
  /\ \A e \in 1..Len(log) :
       (log[e].ev = "execute" /\ log[e].row > 1) =>
         \E d \in 1..(e-1) : log[d] = Committed(log[e].row - 1)
  /\ \A e \in 1..Len(log) : \A d \in 1..Len(log) :
       (log[e].ev = "commit" /\ log[d].ev = "execute" /\ log[d].row = log[e].row) => d < e
  /\ (~Printed("table_created") => Len(Inserts) = 0)

C8_Witness ==
  /\ Len(Inserts) = 3
  /\ \E e \in 1..Len(log) : log[e] = Committed(3)
  /\ file.rows[1] # file.rows[2]

C8_WitnessCreateFails ==
  /\ pc = "returned" /\ Len(Creates) = 1 /\ ~Printed("table_created")
  /\ Len(file.rows) > 0 /\ Len(Inserts) = 0

\* C9 --------------------------------------------------------------------
ForeignKeysGiven == (~foreign_keys.isNone) /\ foreign_keys.v # <<>>

\* number of clauses ahead of the declared columns / of PRIMARY KEY clauses /
\* of FOREIGN KEY clauses the arguments call for
NAuto == IF add_auto_id /\ ~PrimaryKeysGiven THEN 1 ELSE 0

NPk == IF PrimaryKeysGiven THEN 1 ELSE 0

NFk == IF ForeignKeysGiven THEN Len(foreign_keys.v) ELSE 0

\* C9: the clauses of the CREATE TABLE IF NOT EXISTS statement are, in this
\* order: the synthetic identifier (if any), one clause per declared column
\* in input order with its type string verbatim, the PRIMARY KEY clause over
\* the given keys in the given order (if any), one FOREIGN KEY clause per
\* entry of foreign_keys in iteration order; their number is
\* len(columns) + (1 if a synthetic id or a primary-key clause) + len(foreign_keys).
C9_ClauseOrder ==
  DDLBuilt =>
    LET n == Len(file.columns)
    IN  /\ sql_create_table.op = "CREATE TABLE IF NOT EXISTS"
        /\ Len(Clauses) = n + (IF NAuto = 1 \/ NPk = 1 THEN 1 ELSE 0) + NFk
        /\ (NAuto = 1 => Clauses[1].kind = "auto_id")
        /\ \A k \in 1..n :
             /\ Clauses[NAuto + k].kind = "column"
             /\ Clauses[NAuto + k].name = file.columns[k]
             /\ Clauses[NAuto + k].type = types[k]
        /\ (NPk = 1 =>
              /\ Clauses[NAuto + n + 1].kind = "primary_key"
              /\ Clauses[NAuto + n + 1].keys = primary_keys.v)
        /\ \A k \in 1..NFk :
             /\ Clauses[NAuto + n + NPk + k].kind = "foreign_key"
             /\ Clauses[NAuto + n + NPk + k].col = foreign_keys.v[k].col
             /\ Clauses[NAuto + n + NPk + k].ref_table = foreign_keys.v[k].ref_table
             /\ Clauses[NAuto + n + NPk + k].ref_col = foreign_keys.v[k].ref_col

C9_Witness ==
  /\ DDLBuilt /\ Len(Creates) = 1 /\ Creates[1].stmt = sql_create_table
  /\ Len(file.columns) = 2 /\ PrimaryKeysGiven /\ ForeignKeysGiven
  /\ Len(Clauses) = 5
  /\ types[1] = <<"v","a","r","c","h","a","r","(","5",")">>
  /\ Clauses[1].type = types[1]

\* C10 -------------------------------------------------------------------
\* csv is base + ".csv"
EndsWithDotCsv(s) == Len(s) >= 4 /\ SubSeq(s, Len(s) - 3, Len(s)) = DotCsv

\* C10: for a file name base + ".csv" the table name is exactly base, and
\* that one name is used in the CREATE TABLE and in every INSERT of the call.
C10_TableNameIsBase ==
  (InCall /\ pc # "validate" /\ EndsWithDotCsv(csv)) =>
    /\ nom_de_la_table = SubSeq(csv, 1, Len(csv) - 4)
    /\ \A e \in 1..Len(Executions) : Executions[e].stmt.table = nom_de_la_table

====
